---------------------------- MODULE Spec2Model ----------------------------
(***************************************************************************)
(* A model of heliocron: the validated value types and event descriptors  *)
(* of domain.rs, the configuration precedence of cli.rs, the poll loop of *)
(* subcommands.rs, and the solar calculator they drive.                   *)
(*                                                                         *)
(* Numbers.  An f64 number of degrees is an integer count of 1/10000      *)
(* degree (Scale), which represents every literal of the source exactly   *)
(* (0.833, 51.4769, -0.0005, ...).  PosInf, NegInf and NaN are the three  *)
(* non-finite f64 values; every comparison with NaN is false.             *)
(***************************************************************************)
EXTENDS Integers, Sequences, FiniteSets, TLC

VARIABLES pc, call, ret, poll, out

vars == <<pc, call, ret, poll, out>>

----------------------------------------------------------------------------
(* f64 *)

Scale == 10000

PosInf == 1000000000
NegInf == -1000000000
NaN == 2000000000

\* How far around each breakpoint of the source the sampled numbers reach.
Slack == 1

F64Lt(a, b) == a # NaN /\ b # NaN /\ a < b
F64Le(a, b) == a # NaN /\ b # NaN /\ a <= b

\* RangeInclusive::contains
RangeContains(lo, hi, v) == F64Le(lo, v) /\ F64Le(v, hi)

Around(b) == (b - Slack)..(b + Slack)

\* The numbers the operations are tried on: the neighbourhood of every
\* breakpoint of the source, the literals of the source, and the non-finite
\* values.
F64Samples ==
    UNION {Around(b) : b \in {-1800000, -900000, -180000, -120000, -60000,
                              0, 8330, 60000, 120000, 180000, 900000, 1800000}}
    \cup {-5, 79647, 498077, 514769, NegInf, PosInf, NaN}

----------------------------------------------------------------------------
(* &str and str::parse::<f64> *)

Digits == <<"0", "1", "2", "3", "4", "5", "6", "7", "8", "9">>

IsDigit(c) == \E i \in 1..10 : Digits[i] = c

DigitVal(c) == (CHOOSE i \in 1..10 : Digits[i] = c) - 1

RECURSIVE DigitsVal(_)
DigitsVal(s) ==
    IF s = <<>> THEN 0
    ELSE 10 * DigitsVal(SubSeq(s, 1, Len(s) - 1)) + DigitVal(s[Len(s)])

RECURSIVE Pow10(_)
Pow10(n) == IF n = 0 THEN 1 ELSE 10 * Pow10(n - 1)

AllDigits(s) == \A i \in 1..Len(s) : IsDigit(s[i])

\* The digits after the sign: "NaN", "inf", or a decimal number with an
\* optional fraction (no more digits than Scale holds).
ParseUnsigned(s) ==
    IF s = <<"N", "a", "N">> THEN [ok |-> TRUE, v |-> NaN]
    ELSE IF s = <<"i", "n", "f">> THEN [ok |-> TRUE, v |-> PosInf]
    ELSE LET dots == {i \in 1..Len(s) : s[i] = "."}
         IN  IF dots = {}
             THEN IF s # <<>> /\ AllDigits(s)
                  THEN [ok |-> TRUE, v |-> DigitsVal(s) * Scale]
                  ELSE [ok |-> FALSE, v |-> 0]
             ELSE IF Cardinality(dots) > 1 THEN [ok |-> FALSE, v |-> 0]
             ELSE LET d == CHOOSE i \in dots : TRUE
                      ip == SubSeq(s, 1, d - 1)
                      fp == SubSeq(s, d + 1, Len(s))
                  IN  IF Len(s) > 1 /\ AllDigits(ip) /\ AllDigits(fp) /\ Len(fp) <= 4
                      THEN [ok |-> TRUE,
                            v |-> DigitsVal(ip) * Scale
                                  + DigitsVal(fp) * Pow10(4 - Len(fp))]
                      ELSE [ok |-> FALSE, v |-> 0]

Negate(v) == IF v = NaN THEN NaN ELSE -v

\* str::parse::<f64>: Ok(number) or Err(ParseFloatError).
ParseF64(s) ==
    IF s # <<>> /\ s[1] = "-"
    THEN LET r == ParseUnsigned(Tail(s))
         IN  [ok |-> r.ok, v |-> IF r.ok THEN Negate(r.v) ELSE 0]
    ELSE IF s # <<>> /\ s[1] = "+" THEN ParseUnsigned(Tail(s))
    ELSE ParseUnsigned(s)

\* The texts the parsers are tried on.
TextSamples ==
    { <<"9", "0">>, <<"9", "0", ".", "0">>, <<"9", "0", ".", "0", "0", "0", "1">>,
      <<"-", "9", "0">>, <<"-", "9", "0", ".", "0", "0", "0", "1">>,
      <<"1", "8", "0">>, <<"-", "1", "8", "0", ".", "0">>,
      <<"1", "8", "0", ".", "0", "0", "0", "1">>,
      <<"5", "1", ".", "4", "7", "6", "9">>, <<"-", "0", ".", "0", "0", "0", "5">>,
      <<"+", "6">>, <<"0", ".", "8", "3", "3">>, <<".", "5">>, <<"7", ".">>,
      <<"N", "a", "N">>, <<"i", "n", "f">>, <<"-", "i", "n", "f">>,
      <<"a", "b", "c">>, <<"1", ".", "2", ".", "3">>, <<"-">>, <<".">>, <<>> }

\* Display for f64, as format! writes a number into a message.
FracString(f) ==
    IF f = 0 THEN ""
    ELSE "." \o Digits[((f \div 1000) % 10) + 1] \o
         (IF f % 1000 = 0 THEN ""
          ELSE Digits[((f \div 100) % 10) + 1] \o
               (IF f % 100 = 0 THEN ""
                ELSE Digits[((f \div 10) % 10) + 1] \o
                     (IF f % 10 = 0 THEN "" ELSE Digits[(f % 10) + 1])))

F64ToString(v) ==
    IF v = NaN THEN "NaN"
    ELSE IF v = PosInf THEN "inf"
    ELSE IF v = NegInf THEN "-inf"
    ELSE LET a == IF v < 0 THEN -v ELSE v
         IN  (IF v < 0 THEN "-" ELSE "") \o ToString(a \div Scale)
                 \o FracString(a % Scale)

\* Display for &str: the text as it stands.
RECURSIVE StrToString(_)
StrToString(s) == IF s = <<>> THEN "" ELSE Head(s) \o StrToString(Tail(s))

----------------------------------------------------------------------------
(* Result<T, String>, and a call that panics *)

Ok(x) == [tag |-> "Ok", val |-> x]
\* Err(format!("<expected> Found '<found>'"))
Err(expected, found) == [tag |-> "Err", expected |-> expected, found |-> found]
Panic(why) == [tag |-> "Panic", why |-> why]

\* Ok(())
OkUnit == [tag |-> "Ok", unit |-> TRUE]

IsOk(r) == r.tag = "Ok"
IsErr(r) == r.tag = "Err"
IsPanic(r) == r.tag = "Panic"

\* Result::unwrap
Unwrap(r) == IF IsOk(r) THEN r ELSE Panic("called Result::unwrap on an Err value")

----------------------------------------------------------------------------
(* domain.rs: Altitude, Latitude, Longitude, Coordinates *)

Altitude(v) == [ty |-> "Altitude", v |-> v]
Latitude(v) == [ty |-> "Latitude", v |-> v]
Longitude(v) == [ty |-> "Longitude", v |-> v]

\* Deref for Altitude, Latitude, Longitude
Deref(x) == x.v

LATITUDE_RANGE == [lo |-> -900000, hi |-> 900000]
LONGITUDE_RANGE == [lo |-> -1800000, hi |-> 1800000]

AltitudeFromUnchecked(alt) == Ok(Altitude(alt))

Altitude_new(alt) ==
    IF RangeContains(-900000, 900000, alt)
    THEN Ok(Altitude(alt))
    ELSE Err("Expected a number between -90.0 and 90.0.", F64ToString(alt))

Altitude_parse(alt) ==
    LET r == ParseF64(alt)
    IN  IF r.ok THEN Altitude_new(r.v)
        ELSE Err("Expected a number between -90.0 and 90.0.", "invalid float literal")

\* impl From<f64> for Altitude: Self::new(alt).unwrap()
Altitude_from(alt) == Unwrap(Altitude_new(alt))

LatitudeNewLoose(value) ==
    IF RangeContains(LATITUDE_RANGE.lo, LATITUDE_RANGE.hi + 1, value)
    THEN Ok(Latitude(value))
    ELSE Err("Latitude must be between -90.0 and 90.0, inclusive.", F64ToString(value))

Latitude_new(value) ==
    IF RangeContains(LATITUDE_RANGE.lo, LATITUDE_RANGE.hi, value)
    THEN Ok(Latitude(value))
    ELSE Err("Latitude must be between -90.0 and 90.0, inclusive.", F64ToString(value))

Latitude_parse(value) ==
    LET r == ParseF64(value)
    IN  IF r.ok THEN Latitude_new(r.v)
        ELSE Err("Latitude must be between -90.0 and 90.0, inclusive.", StrToString(value))

Longitude_new(value) ==
    IF RangeContains(LONGITUDE_RANGE.lo, LONGITUDE_RANGE.hi, value)
    THEN Ok(Longitude(value))
    ELSE Err("Longitude must be between -180.0 and 180.0, inclusive.", F64ToString(value))

Longitude_parse(value) ==
    LET r == ParseF64(value)
    IN  IF r.ok THEN Longitude_new(r.v)
        ELSE Err("Longitude must be between -180.0 and 180.0, inclusive.", StrToString(value))

Coordinates_new(latitude, longitude) ==
    [latitude |-> latitude, longitude |-> longitude]

----------------------------------------------------------------------------
(* domain.rs: DayPart *)

DayPartFromElevationLoose(angle) ==
    IF F64Le(angle, -180000) THEN "Night"
    ELSE IF F64Lt(angle, -120000) THEN "AstronomicalTwilight"
    ELSE IF F64Lt(angle, -60000) THEN "NauticalTwilight"
    ELSE IF F64Lt(angle, 8330) THEN "CivilTwilight"
    ELSE "Day"

DayPart_from_elevation_angle(angle) ==
    IF F64Lt(angle, -180000) THEN "Night"
    ELSE IF F64Lt(angle, -120000) THEN "AstronomicalTwilight"
    ELSE IF F64Lt(angle, -60000) THEN "NauticalTwilight"
    ELSE IF F64Lt(angle, 8330) THEN "CivilTwilight"
    ELSE "Day"

\* impl fmt::Display for DayPart
DayPart_fmt(part) ==
    CASE part = "Day" -> "Day"
      [] part = "CivilTwilight" -> "Civil Twilight"
      [] part = "NauticalTwilight" -> "Nautical Twilight"
      [] part = "AstronomicalTwilight" -> "Astronomical Twilight"
      [] part = "Night" -> "Night"

----------------------------------------------------------------------------
(* domain.rs: EventName, Direction, FixedElevationEvent, Event *)

PlainEventNames ==
    {"Sunrise", "Sunset", "CivilDawn", "CivilDusk", "NauticalDawn",
     "NauticalDusk", "AstronomicalDawn", "AstronomicalDusk", "SolarNoon"}

\* The custom thresholds tried: valid altitudes, as EventName::CustomAM holds.
CustomAltitudes ==
    {Altitude(a) : a \in {-900000, -60000, 0, 8330, 35000, 900000}}

EventNames ==
    {[name |-> n] : n \in PlainEventNames}
    \cup {[name |-> n, alt |-> a] : n \in {"CustomAM", "CustomPM"}, a \in CustomAltitudes}

FixedElevationEvent_new(degrees_below_horizon, solar_direction) ==
    [degrees_below_horizon |-> degrees_below_horizon,
     solar_direction |-> solar_direction]

Fixed(e) == [kind |-> "Fixed", fixed |-> e]
Variable(e) == [kind |-> "Variable", variable |-> e]

\* `x.into()` on an f64 literal, whose panic ends from_event_name.
IntoAltitude(x) == Altitude_from(x)

\* Event::Fixed(FixedElevationEvent::new(x.into(), direction)), or the panic
\* of the conversion.
FixedOf(x, direction) ==
    LET a == IntoAltitude(x)
    IN  IF IsPanic(a) THEN a
        ELSE [tag |-> "Value", descriptor |-> Fixed(FixedElevationEvent_new(a.val, direction))]

EventFromEventNameSwapped(event) ==
    CASE event.name = "Sunrise" -> FixedOf(8330, "Ascending")
      [] event.name = "Sunset" -> FixedOf(8330, "Descending")
      [] event.name = "CivilDawn" -> FixedOf(60000, "Ascending")
      [] event.name = "CivilDusk" -> FixedOf(60000, "Descending")
      [] event.name = "NauticalDawn" -> FixedOf(120000, "Ascending")
      [] event.name = "NauticalDusk" -> FixedOf(180000, "Descending")
      [] event.name = "AstronomicalDawn" -> FixedOf(180000, "Ascending")
      [] event.name = "AstronomicalDusk" -> FixedOf(180000, "Descending")
      [] event.name = "CustomAM" ->
            [tag |-> "Value",
             descriptor |-> Fixed(FixedElevationEvent_new(event.alt, "Ascending"))]
      [] event.name = "CustomPM" ->
            [tag |-> "Value",
             descriptor |-> Fixed(FixedElevationEvent_new(event.alt, "Descending"))]
      [] event.name = "SolarNoon" ->
            [tag |-> "Value", descriptor |-> Variable("SolarNoon")]

EventFromEventNameSunsetAscending(event) ==
    CASE event.name = "Sunrise" -> FixedOf(8330, "Ascending")
      [] event.name = "Sunset" -> FixedOf(8330, "Ascending")
      [] event.name = "CivilDawn" -> FixedOf(60000, "Ascending")
      [] event.name = "CivilDusk" -> FixedOf(60000, "Descending")
      [] event.name = "NauticalDawn" -> FixedOf(120000, "Ascending")
      [] event.name = "NauticalDusk" -> FixedOf(120000, "Descending")
      [] event.name = "AstronomicalDawn" -> FixedOf(180000, "Ascending")
      [] event.name = "AstronomicalDusk" -> FixedOf(180000, "Descending")
      [] event.name = "CustomAM" ->
            [tag |-> "Value",
             descriptor |-> Fixed(FixedElevationEvent_new(event.alt, "Ascending"))]
      [] event.name = "CustomPM" ->
            [tag |-> "Value",
             descriptor |-> Fixed(FixedElevationEvent_new(event.alt, "Descending"))]
      [] event.name = "SolarNoon" ->
            [tag |-> "Value", descriptor |-> Variable("SolarNoon")]

Event_from_event_name(event) ==
    CASE event.name = "Sunrise" -> FixedOf(8330, "Ascending")
      [] event.name = "Sunset" -> FixedOf(8330, "Descending")
      [] event.name = "CivilDawn" -> FixedOf(60000, "Ascending")
      [] event.name = "CivilDusk" -> FixedOf(60000, "Descending")
      [] event.name = "NauticalDawn" -> FixedOf(120000, "Ascending")
      [] event.name = "NauticalDusk" -> FixedOf(120000, "Descending")
      [] event.name = "AstronomicalDawn" -> FixedOf(180000, "Ascending")
      [] event.name = "AstronomicalDusk" -> FixedOf(180000, "Descending")
      [] event.name = "CustomAM" ->
            [tag |-> "Value",
             descriptor |-> Fixed(FixedElevationEvent_new(event.alt, "Ascending"))]
      [] event.name = "CustomPM" ->
            [tag |-> "Value",
             descriptor |-> Fixed(FixedElevationEvent_new(event.alt, "Descending"))]
      [] event.name = "SolarNoon" ->
            [tag |-> "Value", descriptor |-> Variable("SolarNoon")]

----------------------------------------------------------------------------
(* domain.rs: EventTime *)

None == <<>>
Some(x) == <<x>>

EventTime_new(datetime) == [opt |-> datetime]

\* An is_some that ignores the option.
EventTimeIsSomeAlways(e) == TRUE

EventTime_is_some(e) == e.opt # None

\* DateTime<FixedOffset>::to_string
DateTime_to_string(dt) == ToString(dt)

\* impl fmt::Display for EventTime
EventTime_fmt(e) ==
    IF e.opt # None THEN DateTime_to_string(e.opt[1]) ELSE "Never"

----------------------------------------------------------------------------
(* Trigonometry on angles counted in 1/Scale degree, results scaled by    *)
(* Scale: a table of sines per whole degree, interpolated linearly.       *)

SinTable ==
    <<0, 175, 349, 523, 698, 872, 1045, 1219, 1392, 1564,
      1736, 1908, 2079, 2250, 2419, 2588, 2756, 2924, 3090, 3256,
      3420, 3584, 3746, 3907, 4067, 4226, 4384, 4540, 4695, 4848,
      5000, 5150, 5299, 5446, 5592, 5736, 5878, 6018, 6157, 6293,
      6428, 6561, 6691, 6820, 6947, 7071, 7193, 7314, 7431, 7547,
      7660, 7771, 7880, 7986, 8090, 8192, 8290, 8387, 8480, 8572,
      8660, 8746, 8829, 8910, 8988, 9063, 9135, 9205, 9272, 9336,
      9397, 9455, 9511, 9563, 9613, 9659, 9703, 9744, 9781, 9816,
      9848, 9877, 9903, 9925, 9945, 9962, 9976, 9986, 9994, 9998,
      10000>>

\* sin of an angle of the first quadrant, 0 <= a <= 90 degrees.
SinQ(a) ==
    LET d == a \div Scale
        f == a % Scale
    IN  IF f = 0 THEN SinTable[d + 1]
        ELSE SinTable[d + 1] + ((SinTable[d + 2] - SinTable[d + 1]) * f) \div Scale

Sin(a) ==
    LET n == a % (360 * Scale)
    IN  IF n <= 90 * Scale THEN SinQ(n)
        ELSE IF n <= 180 * Scale THEN SinQ(180 * Scale - n)
        ELSE IF n <= 270 * Scale THEN -SinQ(n - 180 * Scale)
        ELSE -SinQ(360 * Scale - n)

Cos(a) == Sin(a + 90 * Scale)

\* asin and acos in whole degrees, read backwards from the sine table:
\* the largest angle whose sine (cosine) does not pass the argument.
AsinDegrees ==
    [x \in Int |->
        IF x < -Scale THEN -90
        ELSE CHOOSE e \in -90..90 :
                /\ Sin(e * Scale) <= x
                /\ (e = 90 \/ Sin((e + 1) * Scale) > x)]

AsinDeg(x) == AsinDegrees[x]

AcosDegrees ==
    [num \in Int, den \in Int |->
        IF Scale * (den \div Scale) < num THEN 0
        ELSE CHOOSE h \in 0..180 :
                /\ Cos(h * Scale) * (den \div Scale) >= num
                /\ (h = 180 \/ Cos((h + 1) * Scale) * (den \div Scale) < num)]

AcosDeg(num, den) == AcosDegrees[num, den]

----------------------------------------------------------------------------
(* The solar calculator (calc.rs) and the poll report (report.rs), of     *)
(* which the source tree holds only the callers: modelled from the        *)
(* specification, sections 3, 4.1 and 4.2.                                *)

\* An instant: a civil date (the day of the year), the seconds since its
\* midnight, and a fixed UTC offset in seconds.
DateTime(day, sec, offset) == [day |-> day, sec |-> sec, offset |-> offset]

\* A DateTime is kept normalised: seconds carry into the date.
NormalDateTime(day, sec, offset) ==
    DateTime(day + (sec \div 86400), sec % 86400, offset)

\* Seconds from the midnight that begins day 0.
AbsSeconds(dt) == dt.day * 86400 + dt.sec

\* The fractional year angle B = 360/365 (N - 81) degrees.
YearAngle(day) == ((day - 81) * 360 * Scale) \div 365

\* Solar declination: 23.44 sin(B) degrees.
Declination(date) == (2344 * Sin(YearAngle(date.day))) \div 100

\* Equation of time, in seconds: 9.87 sin(2B) - 7.53 cos(B) - 1.5 sin(B) minutes.
EquationOfTime(date) ==
    LET b == YearAngle(date.day)
    IN  (592 * Sin(2 * b) - 452 * Cos(b) - 90 * Sin(b)) \div Scale

\* True solar time, in seconds of the solar day.
TrueSolarTime(date, coordinates) ==
    (date.sec + EquationOfTime(date)
        + (240 * Deref(coordinates.longitude)) \div Scale - date.offset) % 86400

\* Hour angle, signed, zero at solar noon.
HourAngle(date, coordinates) ==
    (TrueSolarTime(date, coordinates) * Scale) \div 240 - 180 * Scale

\* Solar noon, in seconds from the midnight of the calculator's civil date:
\* 12:00 - (equation of time + 4 minutes per degree of longitude), in the
\* instant's UTC offset.
SolarNoonSeconds(date, coordinates) ==
    43200 - (EquationOfTime(date) + (240 * Deref(coordinates.longitude)) \div Scale)
        + date.offset

SolarCalculations_new(date, coordinates) ==
    [date |-> date,
     coordinates |-> coordinates,
     declination |-> Declination(date),
     equation_of_time |-> EquationOfTime(date),
     hour_angle |-> HourAngle(date, coordinates),
     solar_noon |-> SolarNoonSeconds(date, coordinates)]

\* refresh(new_instant): the calculator rebuilt for the same coordinates.
SolarCalculations_refresh(self, now) ==
    SolarCalculations_new(now, self.coordinates)

\* solar_elevation(): asin(sin lat sin dec + cos lat cos dec cos hour_angle).
SolarCalculations_solar_elevation(self) ==
    LET lat == Deref(self.coordinates.latitude)
        x == (Sin(lat) * Sin(self.declination)
              + ((Cos(lat) * Cos(self.declination)) \div Scale) * Cos(self.hour_angle))
             \div Scale
    IN  AsinDeg(x) * Scale

\* The argument of acos in the hour-angle equation, as numerator and
\* denominator: (sin(threshold) - sin lat sin dec) / (cos lat cos dec), the
\* threshold elevation lying degrees_below_horizon under the horizon.
AcosArgument(self, degrees_below_horizon) ==
    LET lat == Deref(self.coordinates.latitude)
    IN  [num |-> Sin(-Deref(degrees_below_horizon)) * Scale
                 - Sin(lat) * Sin(self.declination),
         den |-> Cos(lat) * Cos(self.declination)]

\* Whether the argument lies in [-1, 1]; a division by zero gives an
\* infinite or undefined argument, which does not.
AcosArgumentInRange(arg) ==
    arg.den > 0 /\ -arg.den <= arg.num /\ arg.num <= arg.den

\* The hour-angle offset from solar noon, in seconds: hour_angle_0 / 15 hours.
HourAngleOffset(arg) == AcosDeg(arg.num, arg.den) * 240

\* resolve(event, calculator) -> EventTime
SolarCalculations_event_time(self, event) ==
    IF event.kind = "Variable"
    THEN EventTime_new(Some(NormalDateTime(self.date.day, self.solar_noon,
                                           self.date.offset)))
    ELSE LET arg == AcosArgument(self, event.fixed.degrees_below_horizon)
         IN  IF ~AcosArgumentInRange(arg) THEN EventTime_new(None)
             ELSE IF event.fixed.solar_direction = "Ascending"
             THEN EventTime_new(Some(NormalDateTime(
                      self.date.day, self.solar_noon - HourAngleOffset(arg),
                      self.date.offset)))
             ELSE EventTime_new(Some(NormalDateTime(
                      self.date.day, self.solar_noon + HourAngleOffset(arg),
                      self.date.offset)))

\* PollReport::new(&calculations): the instant, the elevation and its day part.
PollReport_new(solar_calculations) ==
    [date |-> solar_calculations.date,
     solar_elevation |-> SolarCalculations_solar_elevation(solar_calculations),
     day_part |-> DayPart_from_elevation_angle(
                      SolarCalculations_solar_elevation(solar_calculations))]

----------------------------------------------------------------------------
(* cli.rs: the command line, the configuration file, parse_config *)

\* The hard-coded default coordinates of parse_config.
DefaultLatitude == 514769
DefaultLongitude == -5

\* What is given for --latitude and for --longitude: nothing, or a text.
CliLatitudes ==
    {None, Some(<<"0", ".", "8", "3", "3">>), Some(<<"9", "0", ".", "0", "0", "0", "1">>),
     Some(<<"a", "b", "c">>)}
CliLongitudes ==
    {None, Some(<<"-", "1", "8", "0", ".", "0">>),
     Some(<<"1", "8", "0", ".", "0", "0", "0", "1">>), Some(<<"N", "a", "N">>)}

\* The numbers a configuration file may hold for a key, or the key missing.
FileLatitudes == {None, Some(-900000), Some(900001), Some(NaN)}
FileLongitudes == {None, Some(1800000), Some(1800001)}

\* What parse_config finds of ~/.config/heliocron.toml.
ConfigFiles ==
    {[state |-> st] : st \in {"no_config_dir", "absent", "unreadable", "bad_toml"}}
    \cup {[state |-> "parsed", latitude |-> la, longitude |-> lo] :
              la \in FileLatitudes, lo \in FileLongitudes}

\* The days of the year, seconds of the day and UTC offsets of the instants tried.
DaySamples == {80, 172, 355}
SecSamples == {0, 43200, 43201}
OffsetSamples == {0, 3600}

Instants ==
    {DateTime(d, s, o) : d \in DaySamples, s \in SecSamples, o \in OffsetSamples}

Subcommands ==
    {[cmd |-> "Report", json |-> j] : j \in BOOLEAN}
    \cup {[cmd |-> "Poll", watch |-> w, json |-> j] : w \in BOOLEAN, j \in BOOLEAN}

\* Cli::parse for the coordinates: each value goes through its value_parser,
\* each of the two options requires the other; a failure ends the process.
Cli_parse(latitude, longitude) ==
    IF latitude # None /\ IsErr(Latitude_parse(latitude[1]))
    THEN [tag |-> "Exit", error |-> Latitude_parse(latitude[1])]
    ELSE IF longitude # None /\ IsErr(Longitude_parse(longitude[1]))
    THEN [tag |-> "Exit", error |-> Longitude_parse(longitude[1])]
    ELSE IF (latitude = None) # (longitude = None)
    THEN [tag |-> "Exit",
          error |-> Err("the following required arguments were not provided", "")]
    ELSE [tag |-> "Ok",
          latitude |-> IF latitude = None THEN None
                       ELSE Some(Latitude_parse(latitude[1]).val),
          longitude |-> IF longitude = None THEN None
                        ELSE Some(Longitude_parse(longitude[1]).val)]

\* A parse_local_config that takes the numbers of the file as they stand.
ParseLocalConfigUnchecked(file) ==
    IF file.state = "unreadable" THEN Err("Failed to read config file path", "")
    ELSE IF file.state = "bad_toml" THEN Err("TOML parse error", "")
    ELSE IF file.latitude # None /\ file.longitude = None
    THEN Err("Missing longitude", "")
    ELSE IF file.latitude = None /\ file.longitude # None
    THEN Err("Missing latitude", "")
    ELSE IF file.latitude = None /\ file.longitude = None
    THEN Err("Missing latitude and longitude", "")
    ELSE [tag |-> "Ok",
          coordinates |-> Coordinates_new(Latitude(file.latitude[1]),
                                          Longitude(file.longitude[1]))]

parse_local_config(file) ==
    IF file.state = "unreadable" THEN Err("Failed to read config file path", "")
    ELSE IF file.state = "bad_toml" THEN Err("TOML parse error", "")
    ELSE IF file.latitude # None /\ file.longitude = None
    THEN Err("Missing longitude", "")
    ELSE IF file.latitude = None /\ file.longitude # None
    THEN Err("Missing latitude", "")
    ELSE IF file.latitude = None /\ file.longitude = None
    THEN Err("Missing latitude and longitude", "")
    ELSE LET lat == Latitude_new(file.latitude[1])
             lon == Longitude_new(file.longitude[1])
         IN  IF IsErr(lat) THEN lat
             ELSE IF IsErr(lon) THEN lon
             ELSE [tag |-> "Ok", coordinates |-> Coordinates_new(lat.val, lon.val)]

ConfigCoordinatesFileFirst(args, file) ==
    LET found == file.state \notin {"no_config_dir", "absent"}
        res == IF found THEN parse_local_config(file) ELSE Err("", "")
    IN  IF found /\ IsOk(res)
        THEN [coordinates |-> res.coordinates, stderr |-> None]
        ELSE IF args.latitude # None /\ args.longitude # None
        THEN [coordinates |-> Coordinates_new(args.latitude[1], args.longitude[1]),
              stderr |-> None]
        ELSE [coordinates |->
                  Coordinates_new(Unwrap(Latitude_new(DefaultLatitude)).val,
                                  Unwrap(Longitude_new(DefaultLongitude)).val),
              stderr |-> IF found THEN Some(res) ELSE None]

\* The coordinates block of parse_config: the coordinates chosen and the
\* warning written to stderr, if any.
ConfigCoordinates(args, file) ==
    IF args.latitude # None /\ args.longitude # None
    THEN [coordinates |-> Coordinates_new(args.latitude[1], args.longitude[1]),
          stderr |-> None]
    ELSE LET found == file.state \notin {"no_config_dir", "absent"}
             res == IF found THEN parse_local_config(file) ELSE Err("", "")
         IN  IF found /\ IsOk(res)
             THEN [coordinates |-> res.coordinates, stderr |-> None]
             ELSE [coordinates |->
                       Coordinates_new(Unwrap(Latitude_new(DefaultLatitude)).val,
                                       Unwrap(Longitude_new(DefaultLongitude)).val),
                   stderr |-> IF found THEN Some(res) ELSE None]

\* The date block of parse_config: now for Poll, noon of the date given in
\* the time zone given otherwise.
ConfigDate(subcommand, date, time_zone, now) ==
    IF subcommand.cmd = "Poll" THEN now
    ELSE DateTime(date, 43200, time_zone)

parse_config(latitude, longitude, subcommand, date, time_zone, file, now) ==
    LET args == Cli_parse(latitude, longitude)
    IN  IF args.tag = "Exit" THEN args
        ELSE LET c == ConfigCoordinates(args, file)
             IN  [tag |-> "Ok",
                  config |-> [coordinates |-> c.coordinates,
                           date |-> ConfigDate(subcommand, date, time_zone, now),
                           action |-> subcommand],
                  stderr |-> c.stderr]

----------------------------------------------------------------------------
(* The program: the calls a client makes, and the steps of poll *)

\* Counters of what the program has written saturate here.
MaxCount == 3

Bump(n) == IF n < MaxCount THEN n + 1 ELSE n

\* The coordinates poll and the calculator are tried with.
CoordinateSamples ==
    {Coordinates_new(Latitude(la), Longitude(lo)) :
        la \in {0, 498077, 514769, 800000, -900000},
        lo \in {-5, 79647, 1800000}} 

NoOutput ==
    [reports |-> 0, last |-> None, banner |-> FALSE,
     waits |-> 0, samples |-> 0, refreshes |-> 0]

Init ==
    /\ pc = "idle"
    /\ call = [fn |-> "none"]
    /\ ret = [tag |-> "none"]
    /\ poll = [state |-> "none"]
    /\ out = NoOutput

\* Where the client stands after its call: the call has returned, or a
\* panic has ended the program.
After(result) == IF IsPanic(result) THEN "panicked" ELSE "returned"

LatitudeNew ==
    \E v \in F64Samples :
        /\ pc = "idle"
        /\ call' = [fn |-> "Latitude::new", num |-> v]
        /\ ret' = Latitude_new(v)
        /\ pc' = After(ret')
        /\ UNCHANGED <<poll, out>>

LatitudeParse ==
    \E s \in TextSamples :
        /\ pc = "idle"
        /\ call' = [fn |-> "Latitude::parse", text |-> s]
        /\ ret' = Latitude_parse(s)
        /\ pc' = After(ret')
        /\ UNCHANGED <<poll, out>>

LongitudeNew ==
    \E v \in F64Samples :
        /\ pc = "idle"
        /\ call' = [fn |-> "Longitude::new", num |-> v]
        /\ ret' = Longitude_new(v)
        /\ pc' = After(ret')
        /\ UNCHANGED <<poll, out>>

LongitudeParse ==
    \E s \in TextSamples :
        /\ pc = "idle"
        /\ call' = [fn |-> "Longitude::parse", text |-> s]
        /\ ret' = Longitude_parse(s)
        /\ pc' = After(ret')
        /\ UNCHANGED <<poll, out>>

AltitudeNew ==
    \E v \in F64Samples :
        /\ pc = "idle"
        /\ call' = [fn |-> "Altitude::new", num |-> v]
        /\ ret' = Altitude_new(v)
        /\ pc' = After(ret')
        /\ UNCHANGED <<poll, out>>

AltitudeParse ==
    \E s \in TextSamples :
        /\ pc = "idle"
        /\ call' = [fn |-> "Altitude::parse", text |-> s]
        /\ ret' = Altitude_parse(s)
        /\ pc' = After(ret')
        /\ UNCHANGED <<poll, out>>

AltitudeFrom ==
    \E v \in F64Samples :
        /\ pc = "idle"
        /\ call' = [fn |-> "Altitude::from", num |-> v]
        /\ ret' = Altitude_from(v)
        /\ pc' = After(ret')
        /\ UNCHANGED <<poll, out>>

FromElevationAngle ==
    \E v \in F64Samples :
        /\ pc = "idle"
        /\ call' = [fn |-> "DayPart::from_elevation_angle", num |-> v]
        /\ ret' = [tag |-> "Value", part |-> DayPart_from_elevation_angle(v)]
        /\ pc' = "returned"
        /\ UNCHANGED <<poll, out>>

FromEventName ==
    \E e \in EventNames :
        /\ pc = "idle"
        /\ call' = [fn |-> "Event::from_event_name", event_name |-> e]
        /\ ret' = Event_from_event_name(e)
        /\ pc' = After(ret')
        /\ UNCHANGED <<poll, out>>

\* Every event of a calculator resolved: each named event, the custom ones
\* with one custom altitude.
NamedEvents(alt) ==
    [n \in PlainEventNames \cup {"CustomAM", "CustomPM"} |->
        IF n \in PlainEventNames THEN [name |-> n] ELSE [name |-> n, alt |-> alt]]

EventTimes ==
    \E date \in Instants, coordinates \in CoordinateSamples, alt \in CustomAltitudes :
        LET calc == SolarCalculations_new(date, coordinates)
            names == NamedEvents(alt)
            events == [n \in DOMAIN names |-> Event_from_event_name(names[n])]
        IN  /\ pc = "idle"
            /\ call' = [fn |-> "SolarCalculations::event_time",
                        calc |-> calc, names |-> names]
            /\ ret' = IF \E n \in DOMAIN names : IsPanic(events[n])
                      THEN Panic("from_event_name")
                      ELSE [tag |-> "Value",
                            times |-> [n \in DOMAIN names |->
                                        LET t == SolarCalculations_event_time(
                                                     calc, events[n].descriptor)
                                        IN  [time |-> t,
                                             is_some |-> EventTime_is_some(t),
                                             text |-> EventTime_fmt(t)]]]
            /\ pc' = After(ret')
            /\ UNCHANGED <<poll, out>>

ParseConfig ==
    \E latitude \in CliLatitudes, longitude \in CliLongitudes,
       subcommand \in Subcommands, date \in {80}, time_zone \in OffsetSamples,
       file \in ConfigFiles, now \in {DateTime(172, 43201, 3600)} :
        /\ pc = "idle"
        /\ call' = [fn |-> "parse_config",
                    latitude |-> latitude, longitude |-> longitude,
                    subcommand |-> subcommand, date |-> date,
                    time_zone |-> time_zone, file |-> file, now |-> now]
        /\ ret' = parse_config(latitude, longitude, subcommand, date, time_zone,
                               file, now)
        /\ pc' = IF ret'.tag = "Exit" THEN "exited" ELSE "returned"
        /\ UNCHANGED <<poll, out>>

\* main of bin/heliocron.rs: the day part at fixed coordinates, now.
Main ==
    \E now \in Instants :
        LET latitude == Latitude_new(498077)
            longitude == Longitude_new(79647)
        IN  /\ pc = "idle"
            /\ call' = [fn |-> "main", now |-> now]
            /\ ret' = IF IsErr(latitude) THEN latitude
                      ELSE IF IsErr(longitude) THEN longitude
                      ELSE [tag |-> "Ok",
                            stdout |-> DayPart_fmt(DayPart_from_elevation_angle(
                                SolarCalculations_solar_elevation(
                                    SolarCalculations_new(
                                        [now EXCEPT !.offset = 0],
                                        Coordinates_new(latitude.val, longitude.val)))))]
            /\ pc' = "exited"
            /\ UNCHANGED <<poll, out>>

----------------------------------------------------------------------------
(* subcommands.rs: poll *)

\* The calculators poll is called with.
PollCoordinates ==
    {Coordinates_new(Latitude(la), Longitude(lo)) :
        la \in {514769, 800000}, lo \in {-5, 1800000}}
PollInstants == {DateTime(80, 43200, 0), DateTime(172, 0, 3600), DateTime(355, 43201, 0)}

\* What Local::now() may answer in the loop.
PollNows == {DateTime(d, s, 3600) : d \in DaySamples, s \in {0, 43201}}

\* What a report is written as: serde_json::to_string or to_string.
Rendered(json, report) ==
    [format |-> IF json THEN "json" ELSE "text", report |-> report]

\* A poll that loops without watch and prints once with it.
PollCallInverted ==
    \E date \in PollInstants, coordinates \in PollCoordinates,
       watch \in BOOLEAN, json \in BOOLEAN :
        LET solar_calculations == SolarCalculations_new(date, coordinates)
            report == PollReport_new(solar_calculations)
        IN  /\ pc = "idle"
            /\ call' = [fn |-> "poll", solar_calculations |-> solar_calculations,
                        watch |-> watch, json |-> json]
            /\ poll' = [state |-> "called",
                        solar_calculations |-> solar_calculations,
                        watch |-> watch, json |-> json, report |-> report,
                        now |-> None, calcs |-> None, receiver |-> None]
            /\ IF watch
               THEN /\ out' = [NoOutput EXCEPT !.reports = 1,
                                               !.last = Some(Rendered(json, report))]
                    /\ ret' = OkUnit
                    /\ pc' = "returned"
               ELSE /\ out' = [NoOutput EXCEPT !.banner = ~json]
                    /\ ret' = [tag |-> "none"]
                    /\ pc' = "poll_print"

\* poll(solar_calculations, watch, json) up to its loop: the first report is
\* built; without watch it is printed and poll returns Ok(()), with watch
\* the banner is printed (unless json) and the cursor is saved and hidden.
PollCall ==
    \E date \in PollInstants, coordinates \in PollCoordinates,
       watch \in BOOLEAN, json \in BOOLEAN :
        LET solar_calculations == SolarCalculations_new(date, coordinates)
            report == PollReport_new(solar_calculations)
        IN  /\ pc = "idle"
            /\ call' = [fn |-> "poll", solar_calculations |-> solar_calculations,
                        watch |-> watch, json |-> json]
            /\ poll' = [state |-> "called",
                        solar_calculations |-> solar_calculations,
                        watch |-> watch, json |-> json, report |-> report,
                        now |-> None, calcs |-> None, receiver |-> None]
            /\ IF ~watch
               THEN /\ out' = [NoOutput EXCEPT !.reports = 1,
                                               !.last = Some(Rendered(json, report))]
                    /\ ret' = OkUnit
                    /\ pc' = "returned"
               ELSE /\ out' = [NoOutput EXCEPT !.banner = ~json]
                    /\ ret' = [tag |-> "none"]
                    /\ pc' = "poll_print"

\* The head of the loop: the report is printed (a JSON line, or the screen
\* redrawn from the saved cursor position).
PollPrint ==
    /\ pc = "poll_print"
    /\ out' = [out EXCEPT !.reports = Bump(out.reports),
                          !.last = Some(Rendered(poll.json, poll.report)),
                          !.waits = 0, !.samples = 0, !.refreshes = 0]
    /\ pc' = "poll_sleep"
    /\ UNCHANGED <<call, ret, poll>>

\* std::thread::sleep(Duration::from_secs(1))
PollSleep ==
    /\ pc = "poll_sleep"
    /\ out' = [out EXCEPT !.waits = Bump(out.waits)]
    /\ pc' = "poll_now"
    /\ UNCHANGED <<call, ret, poll>>

\* let now = Local::now(); let now = now.with_timezone(now.offset());
PollNow ==
    \E now \in PollNows :
        /\ pc = "poll_now"
        /\ poll' = [poll EXCEPT !.now = Some(now)]
        /\ out' = [out EXCEPT !.samples = Bump(out.samples)]
        /\ pc' = "poll_refresh"
        /\ UNCHANGED <<call, ret>>

\* A loop whose refresh keeps the instant of the original calculator.
PollRefreshStale ==
    /\ pc = "poll_refresh"
    /\ \E calcs \in {SolarCalculations_refresh(poll.solar_calculations,
                                              poll.solar_calculations.date)} :
       \E next_report \in {PollReport_new(calcs)} :
          poll' = [poll EXCEPT !.calcs = Some(calcs),
                               !.report = next_report,
                               !.receiver = Some(poll.solar_calculations)]
    /\ out' = [out EXCEPT !.refreshes = Bump(out.refreshes)]
    /\ pc' = "poll_print"
    /\ UNCHANGED <<call, ret>>

\* A loop that rebinds solar_calculations to the refreshed calculator.
PollRefreshRebind ==
    /\ pc = "poll_refresh"
    /\ \E calcs \in {SolarCalculations_refresh(poll.solar_calculations, poll.now[1])} :
       \E next_report \in {PollReport_new(calcs)} :
          poll' = [poll EXCEPT !.calcs = Some(calcs),
                               !.report = next_report,
                               !.receiver = Some(poll.solar_calculations),
                               !.solar_calculations = calcs]
    /\ out' = [out EXCEPT !.refreshes = Bump(out.refreshes)]
    /\ pc' = "poll_print"
    /\ UNCHANGED <<call, ret>>

\* let calcs = solar_calculations.refresh(now); report = PollReport::new(&calcs);
PollRefresh ==
    /\ pc = "poll_refresh"
    /\ \E calcs \in {SolarCalculations_refresh(poll.solar_calculations, poll.now[1])} :
       \E next_report \in {PollReport_new(calcs)} :
          poll' = [poll EXCEPT !.calcs = Some(calcs),
                               !.report = next_report,
                               !.receiver = Some(poll.solar_calculations)]
    /\ out' = [out EXCEPT !.refreshes = Bump(out.refreshes)]
    /\ pc' = "poll_print"
    /\ UNCHANGED <<call, ret>>

PollStep == PollPrint \/ PollSleep \/ PollNow \/ PollRefresh

----------------------------------------------------------------------------

Next ==
    \/ LatitudeNew
    \/ LatitudeParse
    \/ LongitudeNew
    \/ LongitudeParse
    \/ AltitudeNew
    \/ AltitudeParse
    \/ AltitudeFrom
    \/ FromElevationAngle
    \/ FromEventName
    \/ EventTimes
    \/ ParseConfig
    \/ Main
    \/ PollCall
    \/ PollPrint
    \/ PollSleep
    \/ PollNow
    \/ PollRefresh

Spec == Init /\ [][Next]_vars

\* The loop of poll runs as long as the process does: no step of it waits
\* on anything but the one-second sleep.
FairSpec == Spec /\ WF_vars(PollStep)

----------------------------------------------------------------------------
(* Properties of the value types and event descriptors *)

InLatitudeRange(v) == v # NaN /\ -900000 <= v /\ v <= 900000
InLongitudeRange(v) == v # NaN /\ -1800000 <= v /\ v <= 1800000

\* What new(v) must answer for a range: Ok holding exactly v when v is in
\* the range, a failure otherwise.
NewIsExact(inRange) ==
    /\ inRange <=> IsOk(ret)
    /\ IsOk(ret) => Deref(ret.val) = call.num
    /\ ~inRange => IsErr(ret)

\* C1: for Latitude, Longitude and Altitude, new(v) succeeds exactly when v
\* lies in the closed range of the type ([-90, 90], [-180, 180], [-90, 90],
\* end points accepted); on success the value read back through the wrapper
\* is v; outside the range new(v) fails.
C1_NewAcceptsExactlyTheRange ==
    /\ call.fn = "Latitude::new" =>
          NewIsExact(InLatitudeRange(call.num)) /\ (IsOk(ret) => ret.val.ty = "Latitude")
    /\ call.fn = "Longitude::new" =>
          NewIsExact(InLongitudeRange(call.num)) /\ (IsOk(ret) => ret.val.ty = "Longitude")
    /\ call.fn = "Altitude::new" =>
          NewIsExact(InLatitudeRange(call.num)) /\ (IsOk(ret) => ret.val.ty = "Altitude")

C1_Witness ==
    /\ call.fn = "Longitude::new"
    /\ call.num = 1800000
    /\ IsOk(ret)
    /\ Deref(ret.val) = 1800000

\* The number a call of a constructor is given: the argument of new and
\* from, the number the text of parse denotes (if it denotes one).
GivenNumber ==
    IF call.fn \in {"Latitude::parse", "Longitude::parse", "Altitude::parse"}
    THEN ParseF64(call.text)
    ELSE [ok |-> TRUE, v |-> call.num]

GivenOutOfRange ==
    /\ GivenNumber.ok
    /\ IF call.fn \in {"Longitude::new", "Longitude::parse"}
       THEN ~InLongitudeRange(GivenNumber.v)
       ELSE ~InLatitudeRange(GivenNumber.v)

FallibleConstructors ==
    {"Latitude::new", "Latitude::parse", "Longitude::new", "Longitude::parse",
     "Altitude::new", "Altitude::parse"}

\* A validation failure that describes itself: the expected range, and the
\* offending value.
Descriptive(r) ==
    /\ IsErr(r)
    /\ r.expected # ""
    /\ r.found = F64ToString(GivenNumber.v)

\* No wrapped value out of its range is held by the result of a call.
NothingOutOfRangeObservable ==
    (call.fn \in FallibleConstructors \cup {"Altitude::from"} /\ IsOk(ret)) =>
        IF ret.val.ty = "Longitude" THEN InLongitudeRange(Deref(ret.val))
        ELSE InLatitudeRange(Deref(ret.val))

\* C2 as stated: every public way of building a Latitude, Longitude or
\* Altitude from an out-of-range number returns a descriptive validation
\* failure as a value and never panics; no value out of range is observable.
C2_EveryConstructorFailsByValue ==
    /\ (call.fn \in FallibleConstructors \cup {"Altitude::from"} /\ GivenOutOfRange) =>
          Descriptive(ret) /\ pc # "panicked"
    /\ NothingOutOfRangeObservable

\* C2 amended: new and parse of the three types return a descriptive
\* validation failure as a value and never panic on an out-of-range number;
\* the conversion From<f64> for Altitude panics on one instead; no value out
\* of its range is ever observable.
C2_FallibleConstructorsFailByValue ==
    /\ (call.fn \in FallibleConstructors /\ GivenOutOfRange) =>
          Descriptive(ret) /\ pc # "panicked"
    /\ call.fn \in FallibleConstructors => pc # "panicked"
    /\ (call.fn = "Altitude::from" /\ GivenOutOfRange) =>
          IsPanic(ret) /\ pc = "panicked"
    /\ NothingOutOfRangeObservable

C2_Witness ==
    /\ call.fn = "Latitude::parse"
    /\ call.text = <<"9", "0", ".", "0", "0", "0", "1">>
    /\ IsErr(ret)
    /\ ret.found = "90.0001"
    /\ pc = "returned"

DayParts == {"Day", "CivilTwilight", "NauticalTwilight", "AstronomicalTwilight", "Night"}

\* C3: from_elevation_angle is total and maps every elevation to exactly
\* one class: Night below -18.0, Astronomical Twilight on [-18.0, -12.0),
\* Nautical Twilight on [-12.0, -6.0), Civil Twilight on [-6.0, 0.833), Day
\* from 0.833 on; the boundary values classify as the upper class.
C3_ClassifyPartitionsTheLine ==
    call.fn = "DayPart::from_elevation_angle" =>
        /\ ret.tag = "Value" /\ ret.part \in DayParts
        /\ call.num # NaN =>
              /\ ret.part = "Night" <=> call.num < -180000
              /\ ret.part = "AstronomicalTwilight" <=>
                    (-180000 <= call.num /\ call.num < -120000)
              /\ ret.part = "NauticalTwilight" <=>
                    (-120000 <= call.num /\ call.num < -60000)
              /\ ret.part = "CivilTwilight" <=> (-60000 <= call.num /\ call.num < 8330)
              /\ ret.part = "Day" <=> call.num >= 8330

C3_Witness ==
    /\ call.fn = "DayPart::from_elevation_angle"
    /\ call.num = -180000
    /\ ret.part = "AstronomicalTwilight"

\* The threshold and direction each event name stands for.
ThresholdOf(event) ==
    CASE event.name \in {"Sunrise", "Sunset"} -> 8330
      [] event.name \in {"CivilDawn", "CivilDusk"} -> 60000
      [] event.name \in {"NauticalDawn", "NauticalDusk"} -> 120000
      [] event.name \in {"AstronomicalDawn", "AstronomicalDusk"} -> 180000
      [] event.name \in {"CustomAM", "CustomPM"} -> Deref(event.alt)

DirectionOf(event) ==
    IF event.name \in {"Sunrise", "CivilDawn", "NauticalDawn", "AstronomicalDawn",
                       "CustomAM"}
    THEN "Ascending" ELSE "Descending"

\* C4: from_event_name maps every event name to one event descriptor: the
\* fixed-elevation event of threshold 0.833 (Sunrise, Sunset), 6 (civil), 12
\* (nautical), 18 (astronomical) or the custom altitude unchanged, Ascending
\* for Sunrise, the dawns and CustomAM and Descending for Sunset, the dusks
\* and CustomPM; SolarNoon maps to the variable-elevation SolarNoon event;
\* the mapping never fails.
C4_EventNameTable ==
    call.fn = "Event::from_event_name" =>
        /\ ret.tag = "Value" /\ pc = "returned"
        /\ IF call.event_name.name = "SolarNoon"
           THEN ret.descriptor = Variable("SolarNoon")
           ELSE /\ ret.descriptor.kind = "Fixed"
                /\ ret.descriptor.fixed.degrees_below_horizon.ty = "Altitude"
                /\ Deref(ret.descriptor.fixed.degrees_below_horizon) = ThresholdOf(call.event_name)
                /\ ret.descriptor.fixed.solar_direction = DirectionOf(call.event_name)

C4_Witness ==
    /\ call.fn = "Event::from_event_name"
    /\ call.event_name.name = "NauticalDusk"
    /\ ret.tag = "Value"
    /\ Deref(ret.descriptor.fixed.degrees_below_horizon) = 120000
    /\ ret.descriptor.fixed.solar_direction = "Descending"

----------------------------------------------------------------------------
(* Properties of event resolution *)

Resolved == call.fn = "SolarCalculations::event_time"

\* The argument of acos for the threshold of the event named n.
AcosArgumentOf(n) ==
    AcosArgument(call.calc, Altitude(ThresholdOf(call.names[n])))

\* C5: the time of a fixed-elevation event is absent exactly when the
\* argument of acos in the hour-angle equation lies outside [-1, 1] and
\* present otherwise; that outcome is a value, never an error; solar noon of
\* the same calculator is always present; is_some() is true exactly when an
\* instant is present, and the time renders as "Never" exactly when absent.
C5_AbsentExactlyOutsideAcosDomain ==
    Resolved =>
        /\ ret.tag = "Value" /\ pc = "returned"
        /\ \A n \in DOMAIN call.names :
              /\ n # "SolarNoon" =>
                    (ret.times[n].time.opt = None
                        <=> ~AcosArgumentInRange(AcosArgumentOf(n)))
              /\ n = "SolarNoon" => ret.times[n].time.opt # None
              /\ ret.times[n].is_some <=> ret.times[n].time.opt # None
              /\ ret.times[n].text = "Never" <=> ret.times[n].time.opt = None

C5_Witness ==
    /\ Resolved
    /\ ret.tag = "Value"
    /\ ret.times["Sunrise"].time.opt = None
    /\ ~ret.times["Sunrise"].is_some
    /\ ret.times["Sunrise"].text = "Never"
    /\ ret.times["SolarNoon"].is_some
    /\ ret.times["AstronomicalDusk"].is_some

EventPairs ==
    {<<"Sunrise", "Sunset">>, <<"CivilDawn", "CivilDusk">>,
     <<"NauticalDawn", "NauticalDusk">>, <<"AstronomicalDawn", "AstronomicalDusk">>,
     <<"CustomAM", "CustomPM">>}

\* C6: for one calculator and one threshold whose event occurs, the
\* Ascending instant is solar noon minus the hour-angle offset and the
\* Descending instant solar noon plus the same offset, so that ascending <=
\* solar noon <= descending and the two are symmetric about solar noon; all
\* are counted from the midnight of the civil date of the calculator's
\* instant, in its UTC offset.
C6_SymmetricAboutSolarNoon ==
    (Resolved /\ ret.tag = "Value") =>
        \A p \in EventPairs :
            LET asc == ret.times[p[1]].time.opt
                desc == ret.times[p[2]].time.opt
                noon == ret.times["SolarNoon"].time.opt[1]
                offset == HourAngleOffset(AcosArgumentOf(p[1]))
                midnight == call.calc.date.day * 86400
            IN  /\ asc # None <=> desc # None
                /\ asc # None =>
                      /\ offset >= 0
                      /\ AbsSeconds(asc[1]) = AbsSeconds(noon) - offset
                      /\ AbsSeconds(desc[1]) = AbsSeconds(noon) + offset
                      /\ AbsSeconds(asc[1]) <= AbsSeconds(noon)
                      /\ AbsSeconds(noon) <= AbsSeconds(desc[1])
                      /\ AbsSeconds(noon) - AbsSeconds(asc[1])
                            = AbsSeconds(desc[1]) - AbsSeconds(noon)
                      /\ AbsSeconds(noon) = midnight + call.calc.solar_noon
                      /\ asc[1].offset = call.calc.date.offset
                      /\ desc[1].offset = call.calc.date.offset

C6_Witness ==
    /\ Resolved
    /\ ret.tag = "Value"
    /\ ret.times["Sunrise"].is_some
    /\ ret.times["Sunset"].is_some
    /\ AbsSeconds(ret.times["Sunrise"].time.opt[1])
          < AbsSeconds(ret.times["SolarNoon"].time.opt[1])
    /\ AbsSeconds(ret.times["SolarNoon"].time.opt[1])
          < AbsSeconds(ret.times["Sunset"].time.opt[1])

----------------------------------------------------------------------------
(* Properties of poll *)

Polling == call.fn = "poll"

\* Every event descriptor, for comparing the answers of two calculators.
AllEvents == {Event_from_event_name(e).descriptor : e \in EventNames}

\* C7: refresh(instant2) applied to a calculator built at instant1 yields a
\* calculator whose elevation and event times are those of the calculator
\* built by new(instant2, the same coordinates), after any number of
\* refreshes of the loop; the report printed next is built from it.
C7_RefreshEqualsNew ==
    (Polling /\ poll.calcs # None /\ pc # "poll_refresh") =>
        LET direct == SolarCalculations_new(poll.now[1],
                                            call.solar_calculations.coordinates)
            refreshed == poll.calcs[1]
        IN  /\ SolarCalculations_solar_elevation(refreshed)
                  = SolarCalculations_solar_elevation(direct)
            /\ \A e \in AllEvents :
                  SolarCalculations_event_time(refreshed, e)
                      = SolarCalculations_event_time(direct, e)
            /\ pc = "poll_print" => poll.report = PollReport_new(direct)

C7_Witness ==
    /\ Polling
    /\ pc = "poll_print"
    /\ out.reports >= 2
    /\ poll.calcs # None
    /\ poll.now[1] # call.solar_calculations.date
    /\ poll.report # PollReport_new(call.solar_calculations)

\* C8: refresh leaves the calculator it is called on unchanged: throughout
\* the loop the original calculator holds its original instant and
\* coordinates, every refresh is applied to that original calculator, and
\* every refreshed calculator has the coordinates of the original.
C8_RefreshLeavesOriginal ==
    Polling =>
        /\ poll.solar_calculations = call.solar_calculations
        /\ poll.solar_calculations.date = call.solar_calculations.date
        /\ poll.solar_calculations.coordinates = call.solar_calculations.coordinates
        /\ poll.receiver # None => poll.receiver[1] = call.solar_calculations
        /\ poll.calcs # None =>
              poll.calcs[1].coordinates = call.solar_calculations.coordinates

C8_Witness ==
    /\ Polling
    /\ out.reports >= 2
    /\ pc = "poll_print"
    /\ poll.receiver = Some(call.solar_calculations)
    /\ poll.calcs # None
    /\ poll.calcs[1] # poll.solar_calculations

----------------------------------------------------------------------------
(* Properties of parse_config *)

Configured == call.fn = "parse_config" /\ ret.tag = "Ok"

CliGiven == call.latitude # None /\ call.longitude # None

CliPair ==
    Coordinates_new(Latitude(ParseF64(call.latitude[1]).v),
                    Longitude(ParseF64(call.longitude[1]).v))

FileUsable ==
    /\ call.file.state = "parsed"
    /\ call.file.latitude # None
    /\ call.file.longitude # None
    /\ InLatitudeRange(call.file.latitude[1])
    /\ InLongitudeRange(call.file.longitude[1])

FilePair ==
    Coordinates_new(Latitude(call.file.latitude[1]), Longitude(call.file.longitude[1]))

DefaultPair == Coordinates_new(Latitude(514769), Longitude(-5))

\* C9: parse_config chooses the coordinates by strict precedence: both
\* given on the command line, they are used whatever the configuration file
\* holds; otherwise those of an existing configuration file that yields a
\* valid latitude and longitude; otherwise the defaults 51.4769 / -0.0005;
\* latitude and longitude always come from the same source.
C9_CoordinatePrecedence ==
    Configured =>
        /\ ret.config.coordinates =
              IF CliGiven THEN CliPair
              ELSE IF FileUsable THEN FilePair
              ELSE DefaultPair
        /\ \/ CliGiven /\ ret.config.coordinates = CliPair
           \/ FileUsable /\ ret.config.coordinates = FilePair
           \/ ret.config.coordinates = DefaultPair

C9_Witness ==
    /\ Configured
    /\ CliGiven
    /\ FileUsable
    /\ ret.config.coordinates = CliPair
    /\ ret.config.coordinates.latitude # FilePair.latitude
    /\ ret.config.coordinates.longitude # FilePair.longitude

\* The command line gives no coordinates, and the configuration file is
\* there but cannot be used.
CliSilent == call.latitude = None /\ call.longitude = None

FileUnusable ==
    /\ call.file.state \in {"unreadable", "bad_toml", "parsed"}
    /\ ~FileUsable

FileMissing(key) ==
    call.file.state = "parsed" /\ call.file[key] = None

FileOutOfRange ==
    /\ call.file.state = "parsed"
    /\ call.file.latitude # None
    /\ call.file.longitude # None
    /\ \/ ~InLatitudeRange(call.file.latitude[1])
       \/ ~InLongitudeRange(call.file.longitude[1])

\* The reason given in the warning written to stderr.
WarningReason == ret.stderr[1].expected

\* C11: with no coordinates on the command line and a configuration file
\* that exists but is unreadable, not TOML, lacks a latitude or a longitude,
\* or holds a value out of range, parse_config does not fail: it writes a
\* warning and returns the default coordinates 51.4769 / -0.0005, never a
\* coordinate of the file; a missing latitude, a missing longitude and both
\* missing are each reported by a reason of their own.
C11_UnusableFileFallsBackToDefaults ==
    (call.fn = "parse_config" /\ CliSilent /\ FileUnusable) =>
        /\ pc = "returned"
        /\ ret.tag = "Ok"
        /\ ret.stderr # None
        /\ IsErr(ret.stderr[1])
        /\ WarningReason # ""
        /\ ret.config.coordinates = DefaultPair
        /\ InLatitudeRange(Deref(ret.config.coordinates.latitude))
        /\ InLongitudeRange(Deref(ret.config.coordinates.longitude))
        /\ WarningReason = "Missing latitude"
              <=> (FileMissing("latitude") /\ ~FileMissing("longitude"))
        /\ WarningReason = "Missing longitude"
              <=> (~FileMissing("latitude") /\ FileMissing("longitude"))
        /\ WarningReason = "Missing latitude and longitude"
              <=> (FileMissing("latitude") /\ FileMissing("longitude"))
        /\ WarningReason = "Failed to read config file path"
              <=> call.file.state = "unreadable"
        /\ FileOutOfRange =>
              /\ WarningReason \in
                    {"Latitude must be between -90.0 and 90.0, inclusive.",
                     "Longitude must be between -180.0 and 180.0, inclusive."}
              /\ ret.stderr[1].found \in
                    {F64ToString(call.file.latitude[1]),
                     F64ToString(call.file.longitude[1])}

C11_Witness ==
    /\ call.fn = "parse_config"
    /\ CliSilent
    /\ call.file.state = "parsed"
    /\ call.file.latitude = Some(-900000)
    /\ call.file.longitude = Some(1800001)
    /\ ret.tag = "Ok"
    /\ ret.stderr # None
    /\ ret.stderr[1].found = "180.0001"
    /\ ret.config.coordinates = DefaultPair

----------------------------------------------------------------------------
(* The course of poll *)

InLoop == pc \in {"poll_print", "poll_sleep", "poll_now", "poll_refresh"}

\* Without watch: exactly one report, that of the calculator passed in, and
\* poll has returned Ok(()).
PollOnce ==
    (Polling /\ ~call.watch) =>
        /\ pc = "returned"
        /\ ret = OkUnit
        /\ out.reports = 1
        /\ out.last = Some(Rendered(call.json, PollReport_new(call.solar_calculations)))

\* With watch: poll has not returned; the first report printed is that of
\* the calculator passed in; since the last report was printed there has
\* been, in this order, at most one wait, one sample of the local time and
\* one refresh, and exactly one of each when the next report is due, which
\* is then the report of the calculator refreshed to the instant sampled.
PollCycle ==
    (Polling /\ call.watch) =>
        /\ InLoop
        /\ ret.tag = "none"
        /\ out.banner = ~call.json
        /\ (pc = "poll_print") = (out.reports = 0 \/ out.refreshes = 1)
        /\ out.reports = 0 =>
              /\ pc = "poll_print"
              /\ poll.report = PollReport_new(call.solar_calculations)
              /\ out.waits = 0 /\ out.samples = 0 /\ out.refreshes = 0
        /\ (out.reports = 1 /\ pc = "poll_sleep") =>
              out.last = Some(Rendered(call.json,
                                       PollReport_new(call.solar_calculations)))
        /\ out.reports > 0 =>
              /\ out.last[1].format = (IF call.json THEN "json" ELSE "text")
              /\ pc = "poll_sleep" =>
                    out.waits = 0 /\ out.samples = 0 /\ out.refreshes = 0
              /\ pc = "poll_now" =>
                    out.waits = 1 /\ out.samples = 0 /\ out.refreshes = 0
              /\ pc = "poll_refresh" =>
                    out.waits = 1 /\ out.samples = 1 /\ out.refreshes = 0
              /\ pc = "poll_print" =>
                    /\ out.waits = 1 /\ out.samples = 1 /\ out.refreshes = 1
                    /\ poll.report = PollReport_new(SolarCalculations_new(
                           poll.now[1], call.solar_calculations.coordinates))

============================================================================
